---- MODULE Spec2Model ----
(***************************************************************************)
(* index-search (src/main.go): one process invocation ("run") parses its   *)
(* flags, optionally walks a directory with filepath.Walk and writes       *)
(* ./index.csv, and optionally searches ./index.csv.  The only state that  *)
(* survives a run is the table file on disk.                               *)
(*                                                                         *)
(* Strings are TLA+ strings.  A table file is modelled at the level the    *)
(* encoding/csv reader delivers it: a sequence of rows, each a sequence of *)
(* fields.  Names in the modelled trees hold no comma, quote or newline,   *)
(* so csv quoting never applies and is not modelled.  The -v flag only     *)
(* changes which log lines are printed and is left out.  The modelled      *)
(* trees hold directories and regular files only (no symbolic links).      *)
(***************************************************************************)
EXTENDS Integers, Sequences, FiniteSets, TLC

VARIABLES
    pc,          \* position of the current run
    index,       \* flag -i
    directory,   \* flag -d
    searchQuery, \* flag -s
    todo,        \* filepath.Walk: entries still to walk, next first
    files,       \* var files []FileInfo
    handles,     \* files opened by the Walk callback and not yet closed
    table,       \* ./index.csv on disk
    out,         \* lines printed to stdout by search
    logs,        \* log calls of this run, in order
    exitCode,    \* -1 while running, else the exit status of the run
    visited,     \* history: entries the Walk callback was called for
    opened,      \* history: paths os.Open succeeded on in this run
    walkErr,     \* history: number of callbacks made when a traversal error arose, -1 if none
    ioFault,     \* history: the environment failed an I/O call in this run
    prevTable,   \* history: the table file when this run started
    lastGood     \* history: records of the latest run that wrote its table completely

vars == <<pc, index, directory, searchQuery, todo, files, handles, table, out,
          logs, exitCode, visited, opened, walkErr, ioFault, prevTable, lastGood>>

(***************************************************************************)
(* Library functions used by main.go                                       *)
(***************************************************************************)

\* strings.HasPrefix
HasPrefix(s, p) == Len(s) >= Len(p) /\ SubSeq(s, 1, Len(p)) = p

\* strings.Contains
Contains(s, q) == \E i \in 0..(Len(s) - Len(q)) : SubSeq(s, i + 1, i + Len(q)) = q

Digit(d) ==
    CASE d = 0 -> "0" [] d = 1 -> "1" [] d = 2 -> "2" [] d = 3 -> "3" [] d = 4 -> "4"
      [] d = 5 -> "5" [] d = 6 -> "6" [] d = 7 -> "7" [] d = 8 -> "8" [] d = 9 -> "9"

\* strconv.FormatInt(n, 10) for n >= 0 (sizes are never negative)
RECURSIVE FormatInt(_)
FormatInt(n) == IF n < 10 THEN Digit(n) ELSE FormatInt(n \div 10) \o Digit(n % 10)

\* filepath.Join(path, name) as Walk uses it for a child of path
Join(path, name) == path \o "/" \o name

\* buffer := make([]byte, 512)
SampleSize == 512

Min(a, b) == IF a < b THEN a ELSE b

\* most data rows of a table handed to search on its own
MaxDataRows == 2

(***************************************************************************)
(* The file system the runs see.  A file has a size and the kind of its    *)
(* leading bytes (sig); a directory has its entries in the order           *)
(* readDirNames returns them (sorted by name).                             *)
(***************************************************************************)
File(name, size, sig) ==
    [name |-> name, exists |-> TRUE, isDir |-> FALSE, size |-> size, sig |-> sig, kids |-> <<>>]

Dir(name, kids) ==
    [name |-> name, exists |-> TRUE, isDir |-> TRUE, size |-> 0, sig |-> "none", kids |-> kids]

Missing(name) ==
    [name |-> name, exists |-> FALSE, isDir |-> FALSE, size |-> 0, sig |-> "none", kids |-> <<>>]

Disk ==
    [d \in {"repo", "onlygit", "withempty", "file.txt", "missing", ".github"} |->
        CASE d = "repo" ->
                Dir("repo", << Dir(".git", << File("HEAD", 16, "text") >>),
                               File(".gitx", 16, "text"),
                               File("a.git", 16, "png"),
                               Dir("sub", << File("U2.js", 600, "text"),
                                             File("u1.js", 16, "text") >>) >>)
          [] d = "onlygit" ->
                Dir("onlygit", << Dir(".git", << File("config", 16, "text") >>) >>)
          [] d = "withempty" ->
                Dir("withempty", << File("a", 16, "text"),
                                    File("empty", 0, "text"),
                                    File("z", 16, "text") >>)
          [] d = "file.txt" -> File("file.txt", 16, "text")
          [] d = "missing" -> Missing("missing")
          [] d = ".github" -> Dir(".github", << File("ci.yml", 16, "text") >>)]

\* values of -d: not given, or a path
Directories == {""} \cup DOMAIN Disk

\* values of -s: not given, or a query
Queries == {"", "js", "u1"}

\* an entry of the walk: its path, what lstat finds there, and (history) the
\* base names of the directories above it, the root included
Entry(path, node, above) == [path |-> path, node |-> node, above |-> above]

RootEntry(d) == Entry(d, Disk[d], <<>>)

ChildEntries(e) ==
    [i \in 1..Len(e.node.kids) |->
        Entry(Join(e.path, e.node.kids[i].name), e.node.kids[i], Append(e.above, e.node.name))]

NoTable == [exists |-> FALSE, rows |-> <<>>]

(***************************************************************************)
(* main: the Walk callback                                                 *)
(***************************************************************************)

\* a variant of Excluded: only the exact name ".git" is skipped
ExcludedExact(name) == name = ".git"

\* strings.HasPrefix(info.Name(), ".git")
Excluded(name) == HasPrefix(name, ".git")

\* a variant of WalkFnEnter: a file that cannot be opened is skipped and the
\* walk goes on
WalkFnEnterSkipUnopened(n, err, openErr) ==
    IF err THEN "err"
    ELSE IF Excluded(n.name) THEN (IF n.isDir THEN "SkipDir" ELSE "nil")
    ELSE IF ~n.isDir THEN (IF openErr THEN "nil" ELSE "opened")
    ELSE "nil"

\* The callback up to and including os.Open.  err: the error Walk passes in
\* (lstat or readDirNames failed); openErr: os.Open fails.  Result: what the
\* callback returns, or "opened" when it goes on to sample the file.
WalkFnEnter(n, err, openErr) ==
    IF err THEN "err"
    ELSE IF Excluded(n.name) THEN (IF n.isDir THEN "SkipDir" ELSE "nil")
    ELSE IF ~n.isDir THEN (IF openErr THEN "err" ELSE "opened")
    ELSE "nil"

\* file.Read(buffer): n bytes and whether err != nil.  At end of file
\* (an empty file) os.File.Read returns 0, io.EOF.
FileRead(size, fault) ==
    [n |-> IF fault THEN 0 ELSE Min(size, SampleSize), err |-> fault \/ size = 0]

\* http.DetectContentType(buffer) on the whole 512-byte buffer: a signature at
\* the head decides; text followed by the buffer's unfilled zero bytes is binary.
DetectContentType(sig, n) ==
    IF sig = "png" THEN "image/png"
    ELSE IF sig = "text" /\ n >= SampleSize THEN "text/plain; charset=utf-8"
    ELSE "application/octet-stream"

FileInfo(name, size, type, path) == [Name |-> name, Size |-> size, Type |-> type, Path |-> path]

\* a variant of CloseDeferred: the file is never closed
CloseForgotten(h, path) == h

\* defer file.Close() of the callback, run when the callback returns
CloseDeferred(h, path) == h \ {path}

\* log.Fatalw: log and os.Exit(1)
Fatalw(msg) ==
    /\ logs' = Append(logs, msg)
    /\ pc' = "exited"
    /\ exitCode' = 1

\* a traversal error: the callback logs it and returns it, Walk returns it,
\* main's log.Fatalw ends the run
AbortWalk(msg) ==
    /\ logs' = logs \o <<msg, "fatal:walk">>
    /\ pc' = "exited"
    /\ exitCode' = 1

Init ==
    /\ pc = "idle"
    /\ index = FALSE
    /\ directory = ""
    /\ searchQuery = ""
    /\ todo = <<>>
    /\ files = <<>>
    /\ handles = {}
    /\ table = NoTable
    /\ out = <<>>
    /\ logs = <<>>
    /\ exitCode = -1
    /\ visited = <<>>
    /\ opened = {}
    /\ walkErr = -1
    /\ ioFault = FALSE
    /\ prevTable = NoTable
    /\ lastGood = [any |-> FALSE, files |-> <<>>]

\* A run starts: flag.Parse, then main up to its first I/O.
StartRun(ix, d, q) ==
    /\ pc \in {"idle", "exited"}
    /\ index' = ix
    /\ directory' = d
    /\ searchQuery' = q
    /\ files' = <<>>
    /\ handles' = {}
    /\ out' = <<>>
    /\ visited' = <<>>
    /\ opened' = {}
    /\ walkErr' = -1
    /\ ioFault' = FALSE
    /\ prevTable' = table
    /\ UNCHANGED <<table, lastGood>>
    /\ IF d = "" /\ ix
       THEN /\ logs' = <<"fatal:nodirectory">>
            /\ pc' = "exited" /\ exitCode' = 1 /\ todo' = <<>>
       ELSE IF q = "" /\ ~ix
       THEN /\ logs' = <<"fatal:noquery">>
            /\ pc' = "exited" /\ exitCode' = 1 /\ todo' = <<>>
       ELSE IF q # "" /\ ~ix
       THEN /\ logs' = <<>>
            /\ pc' = "search" /\ exitCode' = -1 /\ todo' = <<>>
       ELSE /\ logs' = <<>>
            /\ pc' = "walk" /\ exitCode' = -1 /\ todo' = <<RootEntry(d)>>

\* the I/O failures the environment can cause when Walk reaches node n
VisitFaults(n) ==
    IF ~n.exists THEN {"none"}
    ELSE IF n.isDir THEN {"none", "lstat", "readdir"}
    ELSE {"none", "lstat", "open"}

\* Walk reaches the next entry: lstat, readDirNames for a directory, then the
\* callback up to os.Open.
Visit(fault) ==
    /\ pc = "walk"
    /\ todo # <<>>
    /\ LET e == Head(todo)
           n == e.node
           err == ~n.exists \/ fault \in {"lstat", "readdir"}
           \* the callback gets as far as os.Open
           opens == ~err /\ ~n.isDir /\ ~Excluded(n.name)
           ret == WalkFnEnter(n, err, fault = "open")
       IN /\ fault \in VisitFaults(n)
          /\ fault = "open" => opens
          /\ visited' = Append(visited, e)
          /\ ioFault' = (ioFault \/ fault # "none")
          /\ walkErr' = IF walkErr = -1 /\ (err \/ fault = "open")
                        THEN Len(visited) + 1 ELSE walkErr
          /\ CASE ret = "err" ->
                    /\ AbortWalk(IF err THEN "error:walk" ELSE "error:open")
                    /\ UNCHANGED <<todo, handles, opened>>
               [] ret = "opened" ->
                    /\ pc' = "opened"
                    /\ handles' = handles \cup {e.path}
                    /\ opened' = opened \cup {e.path}
                    /\ UNCHANGED <<todo, logs, exitCode>>
               [] ret = "SkipDir" ->
                    /\ todo' = Tail(todo)
                    /\ UNCHANGED <<pc, handles, opened, logs, exitCode>>
               [] ret = "nil" ->
                    \* walk descends only if readDirNames succeeded
                    /\ todo' = (IF n.isDir /\ ~err THEN ChildEntries(e) ELSE <<>>) \o Tail(todo)
                    /\ UNCHANGED <<pc, handles, opened, logs, exitCode>>
    /\ UNCHANGED <<index, directory, searchQuery, files, table, out, prevTable, lastGood>>

\* The callback from file.Read to its return; the deferred file.Close runs on
\* every path out of it.
Sample(fault) ==
    /\ pc = "opened"
    /\ LET e == Head(todo)
           n == e.node
           rd == FileRead(n.size, fault)
       IN /\ handles' = CloseDeferred(handles, e.path)
          /\ ioFault' = (ioFault \/ fault)
          /\ walkErr' = IF walkErr = -1 /\ fault THEN Len(visited) ELSE walkErr
          /\ IF rd.err
             THEN /\ AbortWalk("error:read")
                  /\ UNCHANGED <<todo, files>>
             ELSE /\ files' = Append(files, FileInfo(n.name, n.size,
                                                     DetectContentType(n.sig, rd.n), e.path))
                  /\ todo' = Tail(todo)
                  /\ pc' = "walk"
                  /\ UNCHANGED <<logs, exitCode>>
    /\ UNCHANGED <<index, directory, searchQuery, table, out, visited, opened,
                   prevTable, lastGood>>

(***************************************************************************)
(* main: writing ./index.csv                                               *)
(***************************************************************************)
Header == <<"Name", "Size", "Type", "Path">>

\* the row written for one FileInfo
Row(fi) == <<fi.Name, FormatInt(fi.Size), fi.Type, fi.Path>>

\* everything main hands to the csv writer
TableRows(fs) == <<Header>> \o [i \in 1..Len(fs) |-> Row(fs[i])]

\* what a failed flush can leave in the file: k whole rows, then the first j
\* fields of the next one
Truncated(rows, k, j) ==
    SubSeq(rows, 1, k) \o (IF j = 0 THEN <<>> ELSE <<SubSeq(rows[k + 1], 1, j)>>)

\* Walk returned nil: os.Create("./index.csv") truncates or creates the file.
CreateIndex(fault) ==
    /\ pc = "walk"
    /\ todo = <<>>
    /\ ioFault' = (ioFault \/ fault)
    /\ IF fault
       THEN /\ Fatalw("fatal:create")
            /\ UNCHANGED table
       ELSE /\ table' = [exists |-> TRUE, rows |-> <<>>]
            /\ pc' = "write"
            /\ UNCHANGED <<logs, exitCode>>
    /\ UNCHANGED <<index, directory, searchQuery, todo, files, handles, out, visited,
                   opened, walkErr, prevTable, lastGood>>

\* the header and rows go to the csv writer, then writer.Flush and
\* writer.Error; on success the summary is logged and main goes on to the
\* search if -s was given
WriteIndex(fault) ==
    /\ pc = "write"
    /\ ioFault' = (ioFault \/ fault)
    /\ LET rows == TableRows(files)
       IN IF fault
          THEN /\ \E k \in 0..(Len(rows) - 1), j \in 0..(Len(Header) - 1) :
                      table' = [exists |-> TRUE, rows |-> Truncated(rows, k, j)]
               /\ Fatalw("fatal:write")
               /\ UNCHANGED lastGood
          ELSE /\ table' = [exists |-> TRUE, rows |-> rows]
               /\ lastGood' = [any |-> TRUE, files |-> files]
               /\ logs' = Append(logs, "info:created")
               /\ IF searchQuery # "" /\ index
                  THEN pc' = "search" /\ exitCode' = -1
                  ELSE pc' = "exited" /\ exitCode' = 0
    /\ UNCHANGED <<index, directory, searchQuery, todo, files, handles, out, visited,
                   opened, walkErr, prevTable>>

(***************************************************************************)
(* search                                                                  *)
(***************************************************************************)

\* csv.Reader.ReadAll with FieldsPerRecord = 0: every record must have as
\* many fields as the first; on any error the result is (nil, err).
ReadAll(rows, ioErr) ==
    IF ioErr \/ \E i \in 1..Len(rows) : Len(rows[i]) # Len(rows[1])
    THEN [lines |-> <<>>, err |-> TRUE]
    ELSE [lines |-> rows, err |-> FALSE]

\* a variant of IndexIsEmpty: a table with no data row counts as empty
IndexHasNoData(lines) == Len(lines) <= 1

\* if len(lines) == 0
IndexIsEmpty(lines) == Len(lines) = 0

\* a variant of DataLines: the first line is not skipped
DataLinesWithHeader(lines) == lines

\* lines[1:]
DataLines(lines) == Tail(lines)

\* len(line) > 0 && strings.Contains(line[0], query)
Matches(line, query) == Len(line) > 0 /\ Contains(line[1], query)

\* the loop over the data lines: the lines it prints, in order
RECURSIVE Printed(_, _)
Printed(lines, query) ==
    IF lines = <<>> THEN <<>>
    ELSE (IF Matches(Head(lines), query) THEN <<Head(lines)>> ELSE <<>>)
         \o Printed(Tail(lines), query)

Search(ioErr) ==
    /\ pc = "search"
    /\ pc' = "exited"
    /\ IF ~table.exists
       THEN /\ logs' = Append(logs, "fatal:notfound")
            /\ exitCode' = 1
            /\ UNCHANGED <<out, ioFault>>
       ELSE LET r == ReadAll(table.rows, ioErr)
            IN /\ ioFault' = (ioFault \/ ioErr)
               /\ IF IndexIsEmpty(r.lines)
                  THEN /\ logs' = Append(logs, "warn:empty")
                       /\ exitCode' = 0
                       /\ UNCHANGED out
                  ELSE IF r.err
                  THEN /\ logs' = Append(logs, "fatal:read")
                       /\ exitCode' = 1
                       /\ UNCHANGED out
                  ELSE /\ out' = Printed(DataLines(r.lines), searchQuery)
                       /\ exitCode' = 0
                       /\ UNCHANGED logs
    /\ UNCHANGED <<index, directory, searchQuery, todo, files, handles, table, visited,
                   opened, walkErr, prevTable, lastGood>>

Next ==
    \/ \E ix \in BOOLEAN, d \in Directories, q \in Queries : StartRun(ix, d, q)
    \/ \E f \in {"none", "lstat", "readdir", "open"} : Visit(f)
    \/ \E f \in BOOLEAN : Sample(f)
    \/ \E f \in BOOLEAN : CreateIndex(f)
    \/ \E f \in BOOLEAN : WriteIndex(f)
    \/ \E f \in BOOLEAN : Search(f)

Spec == Init /\ [][Next]_vars

(***************************************************************************)
(* search on its own: any well-formed table of at most MaxDataRows data    *)
(* rows and any query, the empty one included, then one call of search.    *)
(***************************************************************************)
SampleRows ==
    { <<"u1.js", "16", "application/octet-stream", "repo/sub/u1.js">>,
      <<"U2.js", "600", "text/plain; charset=utf-8", "repo/sub/U2.js">>,
      <<"a.git", "16", "image/png", "repo/a.git">>,
      <<"Name", "0", "application/octet-stream", "js/Name">> }

SampleTables ==
    UNION { { <<Header>> \o t : t \in [1..m -> SampleRows] } : m \in 0..MaxDataRows }

SearchQueries == {"", "js", "u", "U", "a", ".git", "u1.js", "u1.jsx"}

InitSearch ==
    /\ pc = "search"
    /\ index = FALSE
    /\ directory = ""
    /\ searchQuery \in SearchQueries
    /\ todo = <<>>
    /\ files = <<>>
    /\ handles = {}
    /\ table \in { [exists |-> TRUE, rows |-> t] : t \in SampleTables }
    /\ out = <<>>
    /\ logs = <<>>
    /\ exitCode = -1
    /\ visited = <<>>
    /\ opened = {}
    /\ walkErr = -1
    /\ ioFault = FALSE
    /\ prevTable = table
    /\ lastGood = [any |-> FALSE, files |-> <<>>]

NextSearch == \E f \in BOOLEAN : Search(f)

SpecSearch == InitSearch /\ [][NextSearch]_vars


(***************************************************************************)
(* Properties                                                              *)
(***************************************************************************)

\* the base name starts with the literal prefix ".git"
StartsWithGit(name) == Len(name) >= 4 /\ SubSeq(name, 1, 4) = ".git"

\* the number of files in and below a node that are not excluded
RECURSIVE CountFiles(_), CountFilesIn(_)
CountFiles(n) ==
    IF StartsWithGit(n.name) THEN 0
    ELSE IF n.isDir THEN CountFilesIn(n.kids)
    ELSE 1
CountFilesIn(kids) ==
    IF kids = <<>> THEN 0 ELSE CountFiles(Head(kids)) + CountFilesIn(Tail(kids))

\* the rows a table must hold for the records fs
ExpectedRows(fs) ==
    <<Header>> \o [i \in 1..Len(fs) |-> <<fs[i].Name, FormatInt(fs[i].Size), fs[i].Type, fs[i].Path>>]

\* the current run was an index run whose write phase ended without any
\* I/O failure
IndexRunDone ==
    /\ index
    /\ directory # ""
    /\ pc = "exited"
    /\ ~ioFault

\* the current run has called search and search has returned or exited
Searched ==
    /\ pc = "exited"
    /\ searchQuery # ""
    /\ (index => \E i \in 1..Len(logs) : logs[i] = "info:created")

Logged(msg) == \E i \in 1..Len(logs) : logs[i] = msg

\* C1: an index run over a directory tree with N non-excluded files that
\* meets no I/O error produces exactly N records and a table of N+1 rows, the
\* header and one row per record in visitation order.  (Stated for roots
\* whose own name does not start with ".git".)
C1_OneRecordPerFile ==
    (/\ IndexRunDone
     /\ Disk[directory].exists
     /\ Disk[directory].isDir
     /\ ~StartsWithGit(Disk[directory].name))
    => /\ Len(files) = CountFilesIn(Disk[directory].kids)
       /\ table.exists
       /\ Len(table.rows) = CountFilesIn(Disk[directory].kids) + 1
       /\ table.rows = ExpectedRows(files)

\* C2: an empty, non-excluded file whose sampling is over, in a run with no
\* I/O failure, has a record of size 0 with a content type, and the run has
\* not been aborted by a traversal error.
C2_EmptyFileIndexed ==
    \A i \in 1..Len(visited) :
        (/\ visited[i].node.exists
         /\ ~visited[i].node.isDir
         /\ visited[i].node.size = 0
         /\ ~StartsWithGit(visited[i].node.name)
         /\ ~ioFault
         /\ ~(i = Len(visited) /\ pc = "opened"))
        => /\ \E k \in 1..Len(files) :
                /\ files[k].Path = visited[i].path
                /\ files[k].Size = 0
                /\ files[k].Type # ""
           /\ ~Logged("error:read")
           /\ ~Logged("fatal:walk")

\* C3: no entry whose base name starts with ".git" is recorded or written to
\* the table, none is opened, no entry below a directory whose name starts
\* with ".git" is visited, and a tree whose only child is a ".git" directory
\* yields no record and a table of the header alone.
C3_GitExcluded ==
    /\ \A k \in 1..Len(files) : ~StartsWithGit(files[k].Name)
    /\ \A r \in 1..Len(table.rows) : ~StartsWithGit(table.rows[r][1])
    /\ \A i \in 1..Len(visited) :
        /\ \A a \in 1..Len(visited[i].above) : ~StartsWithGit(visited[i].above[a])
        /\ visited[i].path \in opened => ~StartsWithGit(visited[i].node.name)
    /\ (index /\ directory = "onlygit") =>
        /\ files = <<>>
        /\ Logged("info:created") => table.rows = <<Header>>

\* a run over "repo" has ended well: it met .git, .gitx and a.git on its way
C3_Witness ==
    /\ index
    /\ directory = "repo"
    /\ pc = "exited"
    /\ exitCode = 0
    /\ Len(files) = 3
    /\ \E i \in 1..Len(visited) : visited[i].node.name = ".git" /\ visited[i].node.isDir
    /\ \E i \in 1..Len(visited) : visited[i].node.name = ".gitx"

\* C4: once an error has occurred during traversal the run is over with a
\* failure: no entry is visited after the failing one, the summary is never
\* logged, and the table file is what it was when the run started.
C4_AbortAtFirstError ==
    walkErr # -1 =>
        /\ pc = "exited"
        /\ exitCode = 1
        /\ Len(visited) = walkErr
        /\ Logged("fatal:walk")
        /\ ~Logged("info:created")
        /\ table = prevTable

\* a run failed to open a file while an earlier table existed and entries
\* were still to be walked
C4_Witness ==
    /\ walkErr # -1
    /\ Logged("error:open")
    /\ prevTable.exists
    /\ Len(prevTable.rows) > 1
    /\ Len(todo) > 1

\* C5 as stated: a search of a table holding only the header returns nothing,
\* raises the empty-index warning and does not fail.
C5_HeaderOnlyWarns ==
    (Searched /\ ~ioFault /\ table.exists /\ table.rows = <<Header>>)
    => /\ out = <<>>
       /\ exitCode = 0
       /\ Logged("warn:empty")

\* C5 amended: a search of a table holding only the header returns nothing
\* and does not fail, and raises no warning; a search of a table file with no
\* row at all returns nothing, does not fail and raises the warning.
C5_HeaderOnlySilent ==
    (Searched /\ ~ioFault /\ table.exists)
    => /\ table.rows = <<Header>> =>
            (out = <<>> /\ exitCode = 0 /\ ~Logged("warn:empty"))
       /\ table.rows = <<>> =>
            (out = <<>> /\ exitCode = 0 /\ Logged("warn:empty"))

\* a search has run on a table that holds the header alone
C5_Witness ==
    /\ Searched
    /\ ~ioFault
    /\ table.exists
    /\ table.rows = <<Header>>

\* a row count that differs from the first row's makes the table malformed
Malformed(rows) == \E i \in 1..Len(rows) : Len(rows[i]) # Len(rows[1])

\* C6: when the reader fails on the table because its content is malformed,
\* the search ends with the index-read failure and is not reported as an
\* empty index.  (The same holds of an I/O error while reading.)
C6_MalformedIsFatal ==
    (Searched /\ table.exists /\ Malformed(table.rows))
    => /\ Logged("fatal:read")
       /\ exitCode = 1
       /\ ~Logged("warn:empty")

\* C7: an index run whose root is missing or is a regular file fails with
\* the traversal error, produces no record and leaves the table alone.
C7_RootMustBeDirectory ==
    (/\ index
     /\ directory # ""
     /\ pc \in {"write", "search", "exited"}
     /\ (~Disk[directory].exists \/ ~Disk[directory].isDir))
    => /\ Logged("fatal:walk")
       /\ files = <<>>
       /\ table = prevTable

\* q occurs in s as a contiguous run of characters
IsSubstring(q, s) ==
    \E a \in 0..Len(s), b \in 0..Len(s) :
        /\ a + Len(q) + b = Len(s)
        /\ SubSeq(s, a + 1, a + Len(q)) = q

C9_TableIsLastGoodRun ==
    /\ (pc = "exited" /\ lastGood.any) =>
            (table.exists /\ table.rows = ExpectedRows(lastGood.files))
    /\ (pc = "search" /\ index) =>
            (table.exists /\ table.rows = ExpectedRows(files))

\* C10: at most one file opened by the traversal is open at any time, it is
\* the entry being sampled, and none is open once its callback has returned,
\* whether sampling succeeded or failed.
C10_OneHandleAtATime ==
    /\ Cardinality(handles) <= 1
    /\ pc = "opened" => handles = {Head(todo).path}
    /\ pc # "opened" => handles = {}

\* a run was aborted by a failed read of a file it had opened
C10_Witness ==
    /\ pc = "exited"
    /\ Logged("error:read")
    /\ ioFault
    /\ opened # {}
    /\ handles = {}

====
